---- MODULE Spec2Model ----
(***************************************************************************)
(* Model of apprise/plugins/wxpusher.py (NotifyWxPusher): construction     *)
(* (token validation and target classification), send(), url(), __len__   *)
(* and the url() -> parse_url() -> __init__ round trip.                    *)
(*                                                                         *)
(* A Python str is modelled as a sequence of one-character strings, so    *)
(* that the regular expressions, the percent-encoding and the path        *)
(* splitting are computed character by character.                         *)
(***************************************************************************)
EXTENDS Integers, Sequences, FiniteSets, TLC

(***************************************************************************)
(* Bounds of the model.                                                    *)
(***************************************************************************)
\* longest list of targets handed to the constructor (besides SpecExample)
MaxTargets == 2
\* number of send() calls made on one adapter
MaxCalls == 2

(***************************************************************************)
(* Characters.                                                             *)
(***************************************************************************)
Digits == {"0", "1", "2", "3", "4", "5", "6", "7", "8", "9"}

DigitVal(c) ==
    CASE c = "0" -> 0 [] c = "1" -> 1 [] c = "2" -> 2 [] c = "3" -> 3
      [] c = "4" -> 4 [] c = "5" -> 5 [] c = "6" -> 6 [] c = "7" -> 7
      [] c = "8" -> 8 [] c = "9" -> 9

DigitChar(n) ==
    CASE n = 0 -> "0" [] n = 1 -> "1" [] n = 2 -> "2" [] n = 3 -> "3"
      [] n = 4 -> "4" [] n = 5 -> "5" [] n = 6 -> "6" [] n = 7 -> "7"
      [] n = 8 -> "8" [] n = 9 -> "9"

\* the characters the regular expression class \s matches
IsSpace(c) == c \in {" ", "\t", "\n", "\r"}

\* upper-casing, as the re.I flag compares the letters of a literal
Upper(c) ==
    CASE c = "u" -> "U" [] c = "i" -> "I" [] c = "d" -> "D"
      [] c = "a" -> "A" [] c = "t" -> "T" [] OTHER -> c

RECURSIVE LStrip(_)
LStrip(s) == IF s # <<>> /\ IsSpace(Head(s)) THEN LStrip(Tail(s)) ELSE s

RECURSIVE RStrip(_)
RStrip(s) ==
    IF s # <<>> /\ IsSpace(s[Len(s)]) THEN RStrip(SubSeq(s, 1, Len(s) - 1)) ELSE s

\* what the leading \s* and the trailing \s* of both patterns leave
Strip(s) == RStrip(LStrip(s))

NoSpace(s) == \A i \in 1..Len(s) : ~IsSpace(s[i])

AllDigits(s) == \A i \in 1..Len(s) : s[i] \in Digits

\* a failed re.match, a failed validate_regex
None == <<>>
\* a successful match carries the text of the group that is read
Some(x) == <<x>>

(***************************************************************************)
(* The module-level patterns.                                              *)
(***************************************************************************)
\* {0,20}: the digits that may follow the first one
TopicMoreDigits == 20

\* IS_TOPIC with the pattern [0-9]{1,21}: a leading zero is accepted
IS_TOPIC_AnyFirstDigit(target) ==
    LET t == Strip(target)
    IN IF /\ Len(t) >= 1
          /\ Len(t) <= 1 + TopicMoreDigits
          /\ AllDigits(t)
       THEN Some(t) ELSE None

\* IS_TOPIC.match(target): Some(the group 'topic') or None
IS_TOPIC(target) ==
    LET t == Strip(target)
    IN IF /\ Len(t) >= 1
          /\ Len(t) <= 1 + TopicMoreDigits
          /\ t[1] \in Digits \ {"0"}
          /\ AllDigits(t)
       THEN Some(t) ELSE None

\* IS_USER.match(target): Some(the group 'full') or None
IS_USER(target) ==
    LET t == Strip(target)
    IN IF /\ Len(t) >= 5
          /\ <<Upper(t[1]), Upper(t[2]), Upper(t[3]), t[4]>> = <<"U", "I", "D", "_">>
          /\ NoSpace(t)
       THEN Some(t) ELSE None

\* int(result['topic']) on a string of decimal digits
RECURSIVE PyInt(_)
PyInt(s) == IF s = <<>> THEN 0 ELSE 10 * PyInt(SubSeq(s, 1, Len(s) - 1)) + DigitVal(s[Len(s)])

\* str(t) on a non-negative int
RECURSIVE PyStr(_)
PyStr(n) == IF n < 10 THEN <<DigitChar(n)>> ELSE PyStr(n \div 10) \o <<DigitChar(n % 10)>>

(***************************************************************************)
(* Helpers of the library that __init__ calls (apprise/utils.py).          *)
(***************************************************************************)
\* the whitespace-separated words of one string, in order
RECURSIVE Words(_, _, _)
Words(s, cur, acc) ==
    IF s = <<>> THEN (IF cur = <<>> THEN acc ELSE Append(acc, cur))
    ELSE IF IsSpace(Head(s))
         THEN Words(Tail(s), <<>>, IF cur = <<>> THEN acc ELSE Append(acc, cur))
         ELSE Words(Tail(s), Append(cur, Head(s)), acc)

RECURSIVE Flatten(_)
Flatten(list) ==
    IF list = <<>> THEN <<>> ELSE Words(Head(list), <<>>, <<>>) \o Flatten(Tail(list))

RECURSIVE Dedup(_, _)
Dedup(list, acc) ==
    IF list = <<>> THEN acc
    ELSE Dedup(Tail(list),
               IF \E i \in 1..Len(acc) : acc[i] = Head(list) THEN acc
               ELSE Append(acc, Head(list)))

\* parse_list(targets): compound entries split at whitespace, duplicates removed
parse_list(targets) == Dedup(Flatten(targets), <<>>)

\* validate_regex(token, r'^AT_[^\s]+$', 'i'): the token, or None
validate_regex(token) ==
    IF /\ Len(token) >= 4
       /\ <<Upper(token[1]), Upper(token[2]), token[3]>> = <<"A", "T", "_">>
       /\ NoSpace(token)
    THEN Some(token) ELSE None

(***************************************************************************)
(* NotifyWxPusher.__init__                                                 *)
(***************************************************************************)
\* the state of the three lists and of the logger before the loop
EmptyBuckets == [users |-> <<>>, topics |-> <<>>, invalid |-> <<>>, log |-> <<>>, matched |-> 0]

\* ClassifyOne storing the group 'user' (the text after UID_) instead of 'full'
ClassifyOne_UserGroup(b, target) ==
    IF IS_USER(target) # None
    THEN [b EXCEPT !.users = Append(@, SubSeq(IS_USER(target)[1], 5, Len(IS_USER(target)[1]))),
                   !.matched = @ + 1]
    ELSE IF IS_TOPIC(target) # None
    THEN [b EXCEPT !.topics = Append(@, PyInt(IS_TOPIC(target)[1])), !.matched = @ + 1]
    ELSE [b EXCEPT !.invalid = Append(@, target),
                   !.log = Append(@, "invalid_target"),
                   !.matched = @ + 1]

\* one pass of the loop body on `target`
ClassifyOne(b, target) ==
    IF IS_USER(target) # None
    THEN [b EXCEPT !.users = Append(@, IS_USER(target)[1]), !.matched = @ + 1]
    ELSE IF IS_TOPIC(target) # None
    THEN [b EXCEPT !.topics = Append(@, PyInt(IS_TOPIC(target)[1])), !.matched = @ + 1]
    ELSE [b EXCEPT !.invalid = Append(@, target),
                   !.log = Append(@, "invalid_target"),
                   !.matched = @ + 1]

\* for target in <list>: ...
RECURSIVE ClassifyAll(_, _)
ClassifyAll(b, list) ==
    IF list = <<>> THEN b ELSE ClassifyAll(ClassifyOne(b, Head(list)), Tail(list))

\* NewAdapter with the token checked after the loop instead of before it
NewAdapter_TokenCheckedLast(tok, targets) ==
    LET b == ClassifyAll(EmptyBuckets, parse_list(targets))
    IN IF validate_regex(tok) = None
       THEN [raised |-> TRUE, token |-> None,
             b |-> [b EXCEPT !.log = Append(@, "invalid_token")]]
       ELSE [raised |-> FALSE, token |-> validate_regex(tok)[1], b |-> b]

\* the whole constructor: raised (TypeError) or the attributes it sets
NewAdapter(tok, targets) ==
    IF validate_regex(tok) = None
    THEN [raised |-> TRUE, token |-> None,
          b |-> [EmptyBuckets EXCEPT !.log = <<"invalid_token">>]]
    ELSE [raised |-> FALSE, token |-> validate_regex(tok)[1],
          b |-> ClassifyAll(EmptyBuckets, parse_list(targets))]

(***************************************************************************)
(* The transport's answer and json.loads.                                  *)
(*                                                                         *)
(* A JSON value is [t, n, success]: its Python type, its size (the bool    *)
(* as 0/1, the number itself, the length of a str, list or dict) and, for  *)
(* a dict, what it holds under the key 'success'.                          *)
(***************************************************************************)
JsonValues ==
    [t : {"dict"}, n : {1}, success : {"true", "false", "one", "zero", "null"}]
    \cup [t : {"dict"}, n : {0, 1}, success : {"missing"}]
    \cup [t : {"list", "str", "num", "bool"}, n : {0, 1}, success : {"missing"}]
    \cup [t : {"null"}, n : {0}, success : {"missing"}]

\* r.content: None, bytes that are no JSON document, or a JSON document
Contents ==
    [raw : {"none", "empty", "garbage"}, doc : {[t |-> "null", n |-> 0, success |-> "missing"]}]
    \cup [raw : {"json"}, doc : JsonValues]

\* requests.codes.ok
HttpOk == 200

\* what requests.post does: raises a RequestException, or returns r with
\* r.status_code and r.content. With the status 200 every content is
\* drawn; with the status 500, one content of each kind.
NoContent == [raw |-> "none", doc |-> [t |-> "null", n |-> 0, success |-> "missing"]]

Responses ==
    [fault : {TRUE}, status : {0}, content : {NoContent}]
    \cup [fault : {FALSE}, status : {HttpOk}, content : Contents]
    \cup [fault : {FALSE}, status : {500},
          content : {NoContent,
                     [raw |-> "garbage", doc |-> NoContent.doc],
                     [raw |-> "json", doc |-> [t |-> "dict", n |-> 1, success |-> "true"]],
                     [raw |-> "json", doc |-> [t |-> "list", n |-> 1, success |-> "missing"]]}]

\* content = {}
EmptyDict == [t |-> "dict", n |-> 0, success |-> "missing"]

\* try: content = json.loads(r.content) except (...): content = {}
JsonLoads(content) == IF content.raw = "json" THEN content.doc ELSE EmptyDict

\* bool(v)
Truthy(v) == IF v.t = "null" THEN FALSE ELSE v.n # 0

\* bool(content.get('success', False)), content being a dict
GetSuccess(v) == v.success \in {"true", "one"}

\* the final outcome of the try block: what send returns, or what it raises
Interpret(r) ==
    IF r.fault THEN "False"
    ELSE LET content == JsonLoads(r.content)
         IN IF r.status # HttpOk THEN "False"
            ELSE IF ~Truthy(content) THEN "False"
            ELSE IF content.t # "dict" THEN "AttributeError"
            ELSE IF GetSuccess(content) THEN "True"
            ELSE "False"

(***************************************************************************)
(* NotifyWxPusher.send                                                     *)
(***************************************************************************)
\* NoTargets with the second 'not' lost: if not self._users and self._topics
NoTargets_LostNot(us, ts) == us = <<>> /\ ts # <<>>

\* if not self._users and not self._topics
NoTargets(us, ts) == us = <<>> /\ ts = <<>>

\* Payload with the two lists swapped
Payload_Swapped(tok, us, ts) ==
    [appToken |-> tok, topicIds |-> us, uids |-> ts,
     verifyPay |-> FALSE, verifyPayType |-> 0]

\* the request body (content, summary and contentType, which no bucket
\* and no token decides, are left out)
Payload(tok, us, ts) ==
    [appToken |-> tok, topicIds |-> ts, uids |-> us,
     verifyPay |-> FALSE, verifyPayType |-> 0]

\* RemoteIO posting again after the first post
RemoteIO_Retry == <<"throttle", "post", "post">>

\* the calls send makes on its collaborators once it has a payload
RemoteIO == <<"throttle", "post">>

\* one call of send: what it returns or raises, the collaborator calls it makes, the payload it posts
SendResult(tok, us, ts, r) ==
    IF NoTargets(us, ts)
    THEN [ret |-> "False", io |-> <<>>, payload |-> None]
    ELSE [ret |-> Interpret(r), io |-> RemoteIO, payload |-> Some(Payload(tok, us, ts))]

(***************************************************************************)
(* NotifyWxPusher.__len__                                                  *)
(***************************************************************************)
\* LenResult without the minimum of 1
LenResult_NoMinimum(us, ts) == Len(us) + Len(ts)

LenResult(us, ts) ==
    LET targets == Len(us) + Len(ts)
    IN IF targets > 0 THEN targets ELSE 1

(***************************************************************************)
(* Helpers of the library that url() and parse_url() call                  *)
(* (apprise/url.py, apprise/utils.py).                                     *)
(***************************************************************************)
\* the characters quote(x, safe='') leaves as they are
Unreserved ==
    Digits \cup {"_", ".", "-", "~"}
    \cup {"A", "B", "D", "I", "K", "T", "U", "X", "Z"}
    \cup {"a", "b", "c", "d", "e", "g", "i", "k", "r", "t", "u", "x"}

\* the two hexadecimal digits of a character's code
HexOf(c) ==
    CASE c = " " -> <<"2", "0">> [] c = "/" -> <<"2", "F">>
      [] c = "%" -> <<"2", "5">> [] c = "?" -> <<"3", "F">>

Escaped == {" ", "/", "%", "?"}

\* quote(x, safe='')
RECURSIVE quote(_)
quote(x) ==
    IF x = <<>> THEN <<>>
    ELSE (IF Head(x) \in Unreserved THEN <<Head(x)>> ELSE <<"%">> \o HexOf(Head(x)))
         \o quote(Tail(x))

\* unquote(x): every %XX that is a character's code becomes that character
RECURSIVE unquote(_)
unquote(x) ==
    IF x = <<>> THEN <<>>
    ELSE IF /\ Head(x) = "%"
            /\ Len(x) >= 3
            /\ \E c \in Escaped : HexOf(c) = <<x[2], x[3]>>
         THEN <<CHOOSE c \in Escaped : HexOf(c) = <<x[2], x[3]>>>> \o unquote(SubSeq(x, 4, Len(x)))
         ELSE <<Head(x)>> \o unquote(Tail(x))

\* '/'.join(parts)
RECURSIVE Join(_)
Join(parts) ==
    IF parts = <<>> THEN <<>>
    ELSE IF Len(parts) = 1 THEN Head(parts)
    ELSE Head(parts) \o <<"/">> \o Join(Tail(parts))

\* the index of the first c in s, or Len(s) + 1
RECURSIVE Find(_, _, _)
Find(s, c, i) == IF i > Len(s) \/ s[i] = c THEN i ELSE Find(s, c, i + 1)

\* the pieces of s between the occurrences of c, the empty ones dropped
RECURSIVE SplitOn(_, _)
SplitOn(s, c) ==
    IF s = <<>> THEN <<>>
    ELSE LET i == Find(s, c, 1)
             rest == IF i >= Len(s) THEN <<>> ELSE SplitOn(SubSeq(s, i + 1, Len(s)), c)
         IN IF i = 1 THEN rest ELSE <<SubSeq(s, 1, i - 1)>> \o rest

\* NotifyWxPusher.split_path(fullpath): the path's segments, unquoted
split_path(fullpath) ==
    LET segments == SplitOn(fullpath, "/")
    IN [i \in 1..Len(segments) |-> unquote(segments[i])]

\* NotifyBase.parse_url(url, verify_host=False): schema://host/fullpath?query.
\* The query of a URL that url() built holds neither 'token' nor 'to'.
BaseParseUrl(url) ==
    LET noschema == Tail(url)
        q == Find(noschema, "?", 1)
        hostpath == SubSeq(noschema, 1, q - 1)
        h == Find(hostpath, "/", 1)
    IN [host |-> SubSeq(hostpath, 1, h - 1),
        fullpath |-> SubSeq(hostpath, h, Len(hostpath)),
        qsd |-> [token |-> None, to |-> None]]

(***************************************************************************)
(* NotifyWxPusher.url (privacy off) and NotifyWxPusher.parse_url           *)
(***************************************************************************)
\* chain(str(t) for topics, users, quote(x) for invalid targets)
UrlTargets(us, ts, inv) ==
    [i \in 1..Len(ts) |-> PyStr(ts[i])] \o us \o [i \in 1..Len(inv) |-> quote(inv[i])]

UrlResult(tok, us, ts, inv) ==
    <<"wxpusher://">> \o quote(tok) \o <<"/">> \o Join(UrlTargets(us, ts, inv))
    \o <<"/", "?">> \o <<"params">>

\* the arguments parse_url hands to the constructor
ParseUrlResult(url) ==
    LET results == BaseParseUrl(url)
    IN [token |-> IF results.qsd.token # None /\ Len(results.qsd.token[1]) > 0
                  THEN unquote(results.qsd.token[1])
                  ELSE unquote(results.host),
        targets |-> split_path(results.fullpath)
                    \o (IF results.qsd.to # None /\ Len(results.qsd.to[1]) > 0
                        THEN parse_list(<<results.qsd.to[1]>>)
                        ELSE <<>>)]

(***************************************************************************)
(* The inputs.                                                             *)
(***************************************************************************)
Tokens ==
    { <<"A", "T", "_", "k">>,           \* valid
      <<"a", "t", "_", "Z", "/">>,      \* valid: prefix in lower case, a '/'
      <<>>,                             \* invalid: empty
      <<"X", "T", "_", "k">>,           \* invalid: wrong prefix
      <<"A", "T", "_">>,                \* invalid: nothing after the prefix
      <<"A", "T", "_", "a", " ", "b">> }  \* invalid: whitespace inside

SampleTargets ==
    { <<"U", "I", "D", "_", "a">>,
      <<"u", "i", "d", "_", "B", "/", "c">>,
      <<"7", "7">>,
      <<"9">>,
      <<"0", "0", "7">>,
      <<"b", "a", "d", " ", "7", "7">>,
      <<>> }

\* the example of the specification: "UID_abc123", "77", "bad target", "007"
SpecExample ==
    << <<"U", "I", "D", "_", "a", "b", "c", "1", "2", "3">>,
       <<"7", "7">>,
       <<"b", "a", "d", " ", "t", "a", "r", "g", "e", "t">>,
       <<"0", "0", "7">> >>

\* a topic of 22 digits, one more than the pattern takes
LongNumber == [i \in 1..(TopicMoreDigits + 2) |-> "1"]

SeqsUpTo(S, n) == UNION {[1..k -> S] : k \in 0..n}

\* the prefix alone, and an invalid target that quote() has to escape
MoreLists ==
    { << <<"U", "I", "D", "_">> >>,
      << <<"a", "/", "b">>, <<"U", "I", "D", "_", "a">> >> }

TargetLists ==
    SeqsUpTo(SampleTargets, MaxTargets) \cup {SpecExample, <<LongNumber>>} \cup MoreLists

(***************************************************************************)
(* The state machine: one adapter, from construction on.                   *)
(***************************************************************************)
VARIABLES
    phase,            \* "new", "ready" (constructed), "failed" (__init__ raised)
    args,             \* the arguments the constructor was called with
    token,            \* self.token
    users,            \* self._users
    topics,           \* self._topics
    invalid_targets,  \* self._invalid_targets
    log,              \* the warnings of the constructor, in order
    matched,          \* how many targets the constructor's loop has examined
    io,               \* for each send call so far, the calls it made on throttle and the transport
    last              \* the last operation called on the adapter and its result

vars == <<phase, args, token, users, topics, invalid_targets, log, matched, io, last>>

adapter == <<token, users, topics, invalid_targets>>

Init ==
    /\ phase = "new"
    /\ args = [token |-> None, targets |-> <<>>]
    /\ token = None
    /\ users = <<>>
    /\ topics = <<>>
    /\ invalid_targets = <<>>
    /\ log = <<>>
    /\ matched = 0
    /\ io = <<>>
    /\ last = [op |-> "none"]

\* NotifyWxPusher(token, targets)
Construct(tok, targets) ==
    /\ phase = "new"
    /\ LET a == NewAdapter(tok, targets)
       IN /\ phase' = IF a.raised THEN "failed" ELSE "ready"
          /\ token' = a.token
          /\ users' = a.b.users
          /\ topics' = a.b.topics
          /\ invalid_targets' = a.b.invalid
          /\ log' = a.b.log
          /\ matched' = a.b.matched
    /\ args' = [token |-> tok, targets |-> targets]
    /\ last' = [op |-> "init"]
    /\ UNCHANGED io

\* self.send(body), the transport answering r
Send(r) ==
    /\ phase = "ready"
    /\ Len(io) < MaxCalls
    /\ LET s == SendResult(token, users, topics, r)
       IN /\ io' = Append(io, s.io)
          /\ last' = [op |-> "send", r |-> r, ret |-> s.ret, payload |-> s.payload]
    /\ UNCHANGED <<phase, args, token, users, topics, invalid_targets, log, matched>>

\* self.url()
Url ==
    /\ phase = "ready"
    /\ last' = [op |-> "url", value |-> UrlResult(token, users, topics, invalid_targets)]
    /\ UNCHANGED <<phase, args, token, users, topics, invalid_targets, log, matched, io>>

\* len(self)
LenCall ==
    /\ phase = "ready"
    /\ last' = [op |-> "len", value |-> LenResult(users, topics)]
    /\ UNCHANGED <<phase, args, token, users, topics, invalid_targets, log, matched, io>>

\* NotifyWxPusher(**NotifyWxPusher.parse_url(self.url())): a second adapter
Reload ==
    /\ phase = "ready"
    /\ LET u == UrlResult(token, users, topics, invalid_targets)
           kw == ParseUrlResult(u)
       IN last' = [op |-> "reload", url |-> u, copy |-> NewAdapter(kw.token, kw.targets)]
    /\ UNCHANGED <<phase, args, token, users, topics, invalid_targets, log, matched, io>>

Next ==
    \/ \E tok \in Tokens, targets \in TargetLists : Construct(tok, targets)
    \/ \E r \in Responses : Send(r)
    \/ Url
    \/ LenCall
    \/ Reload

Spec == Init /\ [][Next]_vars

(***************************************************************************)
(* The properties.                                                         *)
(***************************************************************************)
\* the strings the properties speak of, read off their wording
UserShaped(t) ==
    /\ Len(t) >= 5
    /\ t[1] \in {"U", "u"} /\ t[2] \in {"I", "i"} /\ t[3] \in {"D", "d"} /\ t[4] = "_"
    /\ \A i \in 1..Len(t) : t[i] \notin {" ", "\t", "\n", "\r"}

TopicShaped(t) ==
    /\ Len(t) \in 1..21
    /\ t[1] \in {"1", "2", "3", "4", "5", "6", "7", "8", "9"}
    /\ \A i \in 1..Len(t) : t[i] \in Digits

LeadingZero(t) == Len(t) >= 1 /\ t[1] = "0" /\ \A i \in 1..Len(t) : t[i] \in Digits

TokenShaped(t) ==
    /\ Len(t) >= 4
    /\ t[1] \in {"A", "a"} /\ t[2] \in {"T", "t"} /\ t[3] = "_"
    /\ \A i \in 1..Len(t) : t[i] \notin {" ", "\t", "\n", "\r"}

InvalidShaped(t) == ~UserShaped(t) /\ ~TopicShaped(t)

Elems(list) == {list[i] : i \in 1..Len(list)}

Count(list, x) == Cardinality({i \in 1..Len(list) : list[i] = x})

\* the three buckets that classifying `list` entry by entry, in order and
\* with its duplicates, gives
BucketsOf(list) ==
    /\ users = SelectSeq(list, UserShaped)
    /\ \E ts \in {SelectSeq(list, TopicShaped)} :
          /\ Len(topics) = Len(ts)
          /\ \A i \in 1..Len(ts) : PyStr(topics[i]) = ts[i]
    /\ invalid_targets = SelectSeq(list, InvalidShaped)

\* the transport answered 200 with a non-empty JSON object whose 'success' is truthy
OkAndSuccess(r) ==
    /\ ~r.fault
    /\ r.status = 200
    /\ r.content.raw = "json"
    /\ r.content.doc.t = "dict"
    /\ r.content.doc.n > 0
    /\ r.content.doc.success \in {"true", "one"}

\* C1: on an adapter with a User or a Topic, send returns True if the
\* status is 200 and the parsed body is non-empty with a truthy 'success',
\* and returns False for every other answer of the transport.
C1_SendTrueIffOkAndSuccess ==
    (last.op = "send" /\ (users # <<>> \/ topics # <<>>)) =>
        IF OkAndSuccess(last.r) THEN last.ret = "True" ELSE last.ret = "False"

\* C2: send never raises: whatever the transport answers, send ends by
\* returning a boolean.
C2_SendNeverRaises ==
    last.op = "send" => last.ret \in {"True", "False"}

\* C3: with the User and the Topic bucket both empty, every send returns
\* False and calls neither the throttle nor the transport (and builds no
\* payload), whatever the Invalid bucket holds.
C3_NoTargetsNoIO ==
    (phase = "ready" /\ users = <<>> /\ topics = <<>>) =>
        /\ \A i \in 1..Len(io) : io[i] = <<>>
        /\ last.op = "send" => (last.ret = "False" /\ last.payload = None)

C3_Witness ==
    /\ last.op = "send"
    /\ users = <<>> /\ topics = <<>> /\ invalid_targets # <<>>
    /\ Len(io) = 2
    /\ OkAndSuccess(last.r)

\* C4: in every send call so far, each POST comes right after a throttle
\* call of the same send call, there are as many throttle calls as POSTs,
\* and there is at most one POST.
C4_ThrottleBeforeEveryPost ==
    \A i \in 1..Len(io) :
        /\ \A j \in 1..Len(io[i]) :
              io[i][j] = "post" => (j > 1 /\ io[i][j - 1] = "throttle")
        /\ Count(io[i], "post") <= 1
        /\ Count(io[i], "throttle") = Count(io[i], "post")

C4_Witness ==
    /\ Len(io) = 2
    /\ Count(io[1], "post") = 1 /\ Count(io[2], "post") = 1
    /\ last.op = "send" /\ last.r.fault

\* C5: round trip: the adapter constructed from parse_url(url()) has the
\* token and the User, Topic and Invalid buckets of the adapter url() was
\* called on.
C5_RoundTrip ==
    last.op = "reload" =>
        /\ ~last.copy.raised
        /\ last.copy.token = token
        /\ last.copy.b.users = users
        /\ last.copy.b.topics = topics
        /\ last.copy.b.invalid = invalid_targets

\* C6 (as stated): construction with a valid token succeeds, and the
\* buckets are the supplied targets classified entry by entry: Users the
\* UID_ strings as written, Topics the values of the topic strings, Invalid
\* every other string, each in the order supplied and with duplicates kept.
\* Stated for lists of non-empty targets (C7 is about the empty string).
C6_BucketsOfSuppliedTargets ==
    (phase # "new" /\ TokenShaped(args.token) /\ <<>> \notin Elems(args.targets)) =>
        (phase = "ready" /\ BucketsOf(args.targets))

\* C6 (amended): construction with a valid token succeeds, and the buckets
\* are the entries of parse_list(targets), the supplied targets split at
\* whitespace and without duplicates, classified entry by entry: Users the
\* UID_ strings as written, Topics the values of the topic strings, Invalid
\* every other string, each in the order parse_list yields them.
C6_BucketsOfParsedTargets ==
    (phase # "new" /\ TokenShaped(args.token)) =>
        (phase = "ready" /\ BucketsOf(parse_list(args.targets)))

C6_Witness ==
    /\ phase = "ready"
    /\ args.targets = SpecExample
    /\ users = << <<"U", "I", "D", "_", "a", "b", "c", "1", "2", "3">> >>
    /\ topics = <<77>>
    /\ invalid_targets = << <<"b", "a", "d">>, <<"t", "a", "r", "g", "e", "t">>, <<"0", "0", "7">> >>

\* C7 (as stated): every supplied string matching ^[1-9][0-9]{0,20}$ gives
\* a Topic equal to its integer value; leading-zero strings and empty
\* strings supplied as targets are recorded in the Invalid bucket.
C7_TopicsAndInvalidNumbers ==
    phase = "ready" =>
        \A t \in Elems(args.targets) :
            /\ TopicShaped(t) => \E i \in 1..Len(topics) : PyStr(topics[i]) = t
            /\ (LeadingZero(t) \/ t = <<>>) => t \in Elems(invalid_targets)

\* C7 (amended): every supplied string matching ^[1-9][0-9]{0,20}$ gives a
\* Topic equal to its integer value ("77" gives 77, "9" gives 9) and is in
\* no other bucket; leading-zero strings are recorded in the Invalid
\* bucket and give no Topic; an empty string supplied as a target is
\* recorded in no bucket.
C7_TopicsAndLeadingZeros ==
    phase = "ready" =>
        /\ \A t \in Elems(args.targets) :
              /\ TopicShaped(t) =>
                    /\ \E i \in 1..Len(topics) : PyStr(topics[i]) = t
                    /\ t \notin Elems(invalid_targets) \cup Elems(users)
              /\ LeadingZero(t) => t \in Elems(invalid_targets)
        /\ <<"7", "7">> \in Elems(args.targets) => 77 \in Elems(topics)
        /\ <<"9">> \in Elems(args.targets) => 9 \in Elems(topics)
        /\ \A i \in 1..Len(topics) :
              \E t \in Elems(parse_list(args.targets)) : TopicShaped(t) /\ PyStr(topics[i]) = t
        /\ <<>> \notin Elems(invalid_targets) \cup Elems(users)

C7_Witness ==
    /\ phase = "ready"
    /\ Elems(args.targets) = { <<"7", "7">>, <<>> }
    /\ topics = <<77>>
    /\ invalid_targets = <<>>

\* C8: construction with a token that does not match ^AT_[^\s]+$ (in any
\* case) fails, no target has been matched, no invalid-target warning has
\* been emitted, no bucket holds anything and no token is stored.
C8_BadTokenFailsFirst ==
    (phase # "new" /\ ~TokenShaped(args.token)) =>
        /\ phase = "failed"
        /\ matched = 0
        /\ "invalid_target" \notin Elems(log)
        /\ users = <<>> /\ topics = <<>> /\ invalid_targets = <<>>
        /\ token = None

C8_Witness ==
    /\ phase = "failed"
    /\ args.token = <<"X", "T", "_", "k">>
    /\ args.targets = << <<"U", "I", "D", "_", "a">>, <<"0", "0", "7">> >>

\* C9: __len__ returns the number of Users plus the number of Topics, and
\* 1 when that number is zero (no targets at all, or Invalid targets only).
C9_LenAtLeastOne ==
    last.op = "len" =>
        /\ last.value >= 1
        /\ (users = <<>> /\ topics = <<>>) => last.value = 1
        /\ (users # <<>> \/ topics # <<>>) => last.value = Len(users) + Len(topics)

C9_Witness ==
    /\ last.op = "len"
    /\ users = <<>> /\ topics = <<>> /\ invalid_targets # <<>>
    /\ last.value = 1

\* C10: once the adapter is constructed, no call of send, url or __len__
\* changes the token or a bucket; and the uids and topicIds of every
\* payload are the User and the Topic bucket, so no Invalid target is sent.
C10_BucketsReadOnly ==
    /\ [][phase = "ready" => (phase' = "ready" /\ adapter' = adapter)]_vars
    /\ [](last.op = "send" =>
            /\ (users # <<>> \/ topics # <<>>) => last.payload # None
            /\ last.payload # None =>
                  /\ last.payload[1].uids = users
                  /\ last.payload[1].topicIds = topics
                  /\ last.payload[1].appToken = token
                  /\ \A x \in Elems(invalid_targets) : x \notin Elems(last.payload[1].uids))

C10_Witness ==
    /\ last.op = "send"
    /\ Len(io) = 2
    /\ last.ret = "True"
    /\ users # <<>> /\ topics # <<>> /\ invalid_targets # <<>>
    /\ last.payload # None

====
